---- MODULE Spec2Model ----
(***************************************************************************)
(* Model of plugins/filters/schedule_utils.py: the FilterModule date       *)
(* predicates (is_due, is_past, is_today_or_past, is_future,               *)
(* is_today_or_future, is_today) and the resolver get_dates they call.     *)
(*                                                                         *)
(* Strings are sequences of one-character strings, so that the regular     *)
(* expressions and strptime are modelled by what they do to the text.      *)
(* A date is <<y, m, d>>, a datetime <<y, m, d, H, M, S, us>>, compared    *)
(* the way Python compares them.                                           *)
(***************************************************************************)
EXTENDS Integers, Sequences, FiniteSets, TLC

VARIABLES
    clock,          \* the system clock: the datetime that datetime.today() returns
    pc,             \* position of the running predicate call
    pred,           \* name of the predicate that was called
    datestring,     \* its datestring argument
    arg_op,         \* is_due's date_operator argument as passed by the caller
    date_operator,  \* is_due's local date_operator after line 59-60
    dates,          \* the dictionary built by the latest get_dates call
    check_date,     \* local check_date
    now_date,       \* local now_date
    today,          \* what the latest datetime.today() of this call returned
    reads,          \* number of clock readings made by this call
    resolves,       \* number of get_dates calls made by this call
    ret,            \* outcome of the call: a boolean or the exception raised
    sample,         \* history: one earlier outcome at the present clock value
    board,          \* history: is_past/is_today/is_future answers for one input
    mono            \* history: one earlier answer, kept while the clock advances

vars == <<clock, pc, pred, datestring, arg_op, date_operator, dates, check_date,
          now_date, today, reads, resolves, ret, sample, board, mono>>

frame == <<pred, datestring, arg_op, date_operator, dates, check_date,
           now_date, today, reads, resolves, ret>>

(***************************************************************************)
(* Bounds of the model.  The clock runs over the days 14 June 2030 ..      *)
(* (15 + DaysAhead) June 2030, the seconds 00:00:00 .. 00:00:MaxSec of     *)
(* each day, and the half seconds of each second.                          *)
(***************************************************************************)
DaysAhead == 1
MaxSec == 0

\* ------------------------------------------------------------------ text

DigitChars == <<"0", "1", "2", "3", "4", "5", "6", "7", "8", "9">>

IsDigit(c) == \E i \in 1..10 : DigitChars[i] = c

\* int() of one decimal digit
DigitVal(c) == (CHOOSE i \in 1..10 : DigitChars[i] = c) - 1

\* int() of the digits s[from] .. s[to]
RECURSIVE ToInt(_, _, _)
ToInt(s, from, to) ==
    IF to < from THEN 0
    ELSE 10 * ToInt(s, from, to - 1) + DigitVal(s[to])

\* The three patterns of get_dates; "\\d" stands for the class \d, every other
\* element for itself.  The anchors ^ and $ are part of Matches.
PatternDate ==
    <<"\\d", "\\d", "\\d", "\\d", "-", "\\d", "\\d", "-", "\\d", "\\d">>

PatternT ==
    PatternDate \o <<"T", "\\d", "\\d", ":", "\\d", "\\d", ":", "\\d", "\\d">>

PatternSpace ==
    PatternDate \o <<" ", "\\d", "\\d", ":", "\\d", "\\d", ":", "\\d", "\\d">>

\* re.match(pattern, s) with the pattern anchored by ^ and $: Python's $ matches
\* at the end of the string and also just before a newline that ends the string.
Matches(pattern, s) ==
    /\ \/ Len(s) = Len(pattern)
       \/ Len(s) = Len(pattern) + 1 /\ s[Len(s)] = "\n"
    /\ \A i \in 1..Len(pattern) :
          IF pattern[i] = "\\d" THEN IsDigit(s[i]) ELSE s[i] = pattern[i]

\* The strptime formats of get_dates, as the separator between date and time
\* ("" for "%Y-%m-%d").
FormatDate == ""
FormatT == "T"

\* Variant of FormatSpace: the format of the T block copied into the third block.
FormatSpaceAsT == "T"
FormatSpace == " "

\* calendar.isleap / datetime._days_in_month
IsLeap(y) == y % 4 = 0 /\ (y % 100 # 0 \/ y % 400 = 0)

DaysInMonth(y, m) ==
    IF m = 2 THEN (IF IsLeap(y) THEN 29 ELSE 28)
    ELSE IF m \in {4, 6, 9, 11} THEN 30 ELSE 31

NoValue == <<>>

ValueError == [exc |-> "ValueError", key |-> "", val |-> FALSE]
TypeError == [exc |-> "TypeError", key |-> "", val |-> FALSE]
KeyError(k) == [exc |-> "KeyError", key |-> k, val |-> FALSE]
Returned(b) == [exc |-> "", key |-> "", val |-> b]
NoOutcome == [exc |-> "none", key |-> "", val |-> FALSE]

\* datetime.strptime(s, fmt) for a string that matched the pattern of fmt:
\* [ok |-> TRUE, value |-> the datetime] or [ok |-> FALSE] for a ValueError.
\* strptime fails when text is left over after the format ("unconverted data
\* remains"), when a field is outside what its directive accepts (%m 01-12,
\* %d 01-31, %H 00-23, %M 00-59, %S 00-61), and when the datetime constructor
\* refuses the fields (year 0, a day the month does not have, second 60 or 61).
Strptime(s, fmt) ==
    LET width == IF fmt = FormatDate THEN 10 ELSE 19
        timed == fmt # FormatDate
        y  == ToInt(s, 1, 4)
        m  == ToInt(s, 6, 7)
        d  == ToInt(s, 9, 10)
        hh == IF timed THEN ToInt(s, 12, 13) ELSE 0
        mm == IF timed THEN ToInt(s, 15, 16) ELSE 0
        ss == IF timed THEN ToInt(s, 18, 19) ELSE 0
        good == /\ Len(s) = width
                /\ timed => s[11] = fmt
                /\ y >= 1
                /\ m \in 1..12
                /\ d \in 1..DaysInMonth(y, m)
                /\ hh \in 0..23
                /\ mm \in 0..59
                /\ ss \in 0..59
    IN  IF good THEN [ok |-> TRUE, value |-> <<y, m, d, hh, mm, ss, 0>>]
        ELSE [ok |-> FALSE, value |-> NoValue]

\* ------------------------------------------------------------ date values

\* datetime.date(): the calendar date of a datetime
DateOf(dt) == <<dt[1], dt[2], dt[3]>>

\* datetime.replace(microsecond=0)
StripMicroseconds(dt) == [dt EXCEPT ![7] = 0]

IsDate(v) == Len(v) = 3
IsDateTime(v) == Len(v) = 7

\* Python's comparison of two tuples of the same length
RECURSIVE TupleLess(_, _, _)
TupleLess(a, b, i) ==
    IF i > Len(a) THEN FALSE
    ELSE IF a[i] # b[i] THEN a[i] < b[i]
    ELSE TupleLess(a, b, i + 1)

\* a <sym> b for two date or datetime objects.  A date and a datetime are never
\* equal, and ordering them raises TypeError.
Compare(sym, a, b) ==
    IF Len(a) # Len(b)
    THEN IF sym = "==" THEN Returned(FALSE)
         ELSE IF sym = "!=" THEN Returned(TRUE)
         ELSE TypeError
    ELSE Returned(CASE sym = "==" -> a = b
                    [] sym = "!=" -> a # b
                    [] sym = "<"  -> TupleLess(a, b, 1)
                    [] sym = "<=" -> TupleLess(a, b, 1) \/ a = b
                    [] sym = ">"  -> TupleLess(b, a, 1)
                    [] sym = ">=" -> TupleLess(b, a, 1) \/ a = b)

\* -------------------------------------------------------------- get_dates

EmptyDict == [k \in {} |-> NoValue]

\* Variant of NewDates: the dictionary is kept between get_dates calls (an
\* attribute of the module object, or a mutable default) and not made anew.
KeptDates(previous) == previous

\* line 32: dates = {} ; the dictionary a get_dates call starts from, given
\* the one the call before it built
NewDates(previous) == EmptyDict

\* Variant of NowForDate: .date() forgotten on the now side.
NowForDateAsTimestamp(t) == StripMicroseconds(t)

\* the now_date of the date-only branch, line 35
NowForDate(t) == DateOf(t)

\* Variant of NowForTimestamp: .replace(microsecond=0) forgotten.
NowWithMicroseconds(t) == t

\* the now_date of the two timestamp branches, lines 42 and 49
NowForTimestamp(t) == StripMicroseconds(t)

\* the check_date of the date-only branch, lines 36-38
CheckForDate(parsed) == DateOf(parsed)

\* one "if re.match(pattern, datestring):" block of get_dates.  acc is
\* [raised, dates]; a block is skipped once an earlier one has raised.
Branch(acc, pattern, fmt, s, t) ==
    IF acc.raised \/ ~Matches(pattern, s) THEN acc
    ELSE LET p == Strptime(s, fmt)
             now == IF fmt = FormatDate THEN NowForDate(t) ELSE NowForTimestamp(t)
         IN  IF ~p.ok THEN [acc EXCEPT !.raised = TRUE]
             ELSE [acc EXCEPT !.dates =
                      [k \in {"now_date", "check_date"} |->
                          IF k = "now_date" THEN now
                          ELSE IF fmt = FormatDate THEN CheckForDate(p.value)
                          ELSE p.value]]

\* get_dates(s) with the clock at t, starting from the previous dictionary:
\* the three blocks one after the other (they are not elif).
GetDates(previous, s, t) ==
    Branch(Branch(Branch([raised |-> FALSE, dates |-> NewDates(previous)],
                         PatternDate, FormatDate, s, t),
                  PatternT, FormatT, s, t),
           PatternSpace, FormatSpace, s, t)

\* does get_dates(s) call datetime.today() ?
ReadsClock(s) ==
    \/ Matches(PatternDate, s)
    \/ Matches(PatternT, s)
    \/ Matches(PatternSpace, s)

\* ---------------------------------------------------------------- inputs

Txt_2030_06_15 == <<"2", "0", "3", "0", "-", "0", "6", "-", "1", "5">>
Txt_2031_01_01 == <<"2", "0", "3", "1", "-", "0", "1", "-", "0", "1">>
Txt_2030_02_30 == <<"2", "0", "3", "0", "-", "0", "2", "-", "3", "0">>
Txt_000000 == <<"0", "0", ":", "0", "0", ":", "0", "0">>
Txt_000060 == <<"0", "0", ":", "0", "0", ":", "6", "0">>
Txt_15_06_2030 == <<"1", "5", "/", "0", "6", "/", "2", "0", "3", "0">>

ValidInputs ==
    { Txt_2030_06_15,
      Txt_2031_01_01,
      Txt_2030_06_15 \o <<"T">> \o Txt_000000,
      Txt_2030_06_15 \o <<" ">> \o Txt_000000 }

Inputs ==
    ValidInputs \cup
    { Txt_2030_02_30,
      Txt_2030_06_15 \o <<"T">> \o Txt_000060,
      Txt_2030_06_15 \o <<"\n">>,
      Txt_15_06_2030 }

NamedPredicates ==
    {"is_past", "is_today_or_past", "is_future", "is_today_or_future", "is_today"}

\* the keys of the table ops, lines 61-68
Ops == {"==", ">", ">=", "<=", "<", "!="}

Omitted == [given |-> FALSE, sym |-> ""]
Given(sym) == [given |-> TRUE, sym |-> sym]

OperatorArgs == {Omitted} \cup {Given(s) : s \in Ops \cup {"", "~="}}

\* "not date_operator": None and the empty string are false
IsFalsy(op) == ~op.given \/ op.sym = ""

ClockValues ==
    { <<2030, 6, d, 0, 0, s, us>> :
        d \in 14..(15 + DaysAhead), s \in 0..MaxSec, us \in {0, 500000} }

\* --------------------------------------------------------------- actions

NoSample == [taken |-> FALSE, ended |-> FALSE, pred |-> "", datestring |-> <<>>,
             arg_op |-> Omitted, ret |-> NoOutcome, check |-> NoValue]
NoBoard == [datestring |-> <<>>, is_past |-> "?", is_today |-> "?", is_future |-> "?"]
NoMono == [pred |-> "", datestring |-> <<>>, phase |-> 0, ended |-> FALSE]

Init ==
    /\ clock \in ClockValues
    /\ pc = "idle"
    /\ pred = ""
    /\ datestring = <<>>
    /\ arg_op = Omitted
    /\ date_operator = ""
    /\ dates = EmptyDict
    /\ check_date = NoValue
    /\ now_date = NoValue
    /\ today = NoValue
    /\ reads = 0
    /\ resolves = 0
    /\ ret = NoOutcome
    /\ sample = NoSample
    /\ board = NoBoard
    /\ mono = NoMono

\* Variant of SymbolOf: is_past written with <= .
SymbolOfInclusive(p) ==
    CASE p = "is_past" -> "<="
      [] p = "is_today_or_past" -> "<="
      [] p = "is_future" -> ">"
      [] p = "is_today_or_future" -> ">="
      [] p = "is_today" -> "=="

\* the comparison a named predicate makes between check_date and now_date
\* (lines 77, 85, 93, 101, 109)
SymbolOf(p) ==
    CASE p = "is_past" -> "<"
      [] p = "is_today_or_past" -> "<="
      [] p = "is_future" -> ">"
      [] p = "is_today_or_future" -> ">="
      [] p = "is_today" -> "=="

\* one "self.get_dates(s)[key]" of a predicate: the effect on dates, today and
\* reads, and the value or the exception it gives
Resolve(s, key) ==
    LET got == GetDates(dates, s, clock)
        hit == ReadsClock(s)
        found == ~got.raised /\ key \in DOMAIN got.dates
    IN  [dates |-> got.dates,
         today |-> IF hit THEN clock ELSE NoValue,
         reads |-> IF hit THEN 1 ELSE 0,
         outcome |-> IF got.raised THEN ValueError
                     ELSE IF ~found THEN KeyError(key)
                     ELSE NoOutcome,
         value |-> IF found THEN got.dates[key] ELSE NoValue]

\* lines 59-60 of is_due: a false date_operator becomes "=="
DefaultOperator(op) == IF IsFalsy(op) THEN "==" ELSE op.sym

\* A caller invokes predicate p, which runs up to and including
\*     check_date = self.get_dates(datestring)["check_date"]
\* (for is_due lines 59-69, for the named predicates their first statement).
Call(p, s, op) ==
    /\ pc = "idle"
    /\ pred' = p
    /\ datestring' = s
    /\ arg_op' = op
    /\ date_operator' = IF p = "is_due" THEN DefaultOperator(op) ELSE ""
    /\ now_date' = NoValue
    /\ \E r \in {Resolve(s, "check_date")} :
           /\ dates' = r.dates
           /\ today' = r.today
           /\ reads' = r.reads
           /\ resolves' = 1
           /\ check_date' = r.value
           /\ ret' = r.outcome
           /\ pc' = IF r.outcome = NoOutcome THEN "now" ELSE "done"
    /\ UNCHANGED <<clock, sample, board, mono>>

CallNamed == \E p \in NamedPredicates, s \in Inputs : Call(p, s, Omitted)

CallIsDue == \E s \in Inputs, op \in OperatorArgs : Call("is_due", s, op)

\* now_date = self.get_dates(datestring)["now_date"]   (lines 70, 76, ...)
ResolveNow ==
    /\ pc = "now"
    /\ \E r \in {Resolve(datestring, "now_date")} :
           /\ dates' = r.dates
           /\ today' = IF r.reads = 0 THEN today ELSE r.today
           /\ reads' = reads + r.reads
           /\ resolves' = resolves + 1
           /\ now_date' = r.value
           /\ ret' = r.outcome
           /\ pc' = IF r.outcome = NoOutcome THEN "compare" ELSE "done"
    /\ UNCHANGED <<clock, pred, datestring, arg_op, date_operator, check_date,
                   sample, board, mono>>

\* Variant of DueResult: the operands in the order of the named predicates.
DueResultCheckFirst(op, now, check) ==
    IF op \notin Ops THEN KeyError(op) ELSE Compare(op, check, now)

\* line 71: ops[date_operator](now_date, check_date)
DueResult(op, now, check) ==
    IF op \notin Ops THEN KeyError(op) ELSE Compare(op, now, check)

\* Variant of NamedResult: the operands in the order of is_due.
NamedResultNowFirst(p, now, check) == Compare(SymbolOf(p), now, check)

\* lines 77-79 and alike: if check_date <sym> now_date: return True; return False
NamedResult(p, now, check) == Compare(SymbolOf(p), check, now)

Outcome ==
    IF pred = "is_due" THEN DueResult(date_operator, now_date, check_date)
    ELSE NamedResult(pred, now_date, check_date)

\* the comparison and the return of the predicate
Finish ==
    /\ pc = "compare"
    /\ ret' = Outcome
    /\ pc' = "done"
    /\ UNCHANGED <<clock, pred, datestring, arg_op, date_operator, dates,
                   check_date, now_date, today, reads, resolves, sample, board, mono>>

\* The caller takes the outcome; the locals of the call are gone.  The model
\* keeps dates, the dictionary of the latest get_dates call, until the next one.
\* A history that was noted during this call is marked as being of an ended call.
Return ==
    /\ pc = "done"
    /\ pc' = "idle"
    /\ pred' = ""
    /\ datestring' = <<>>
    /\ arg_op' = Omitted
    /\ date_operator' = ""
    /\ check_date' = NoValue
    /\ now_date' = NoValue
    /\ today' = NoValue
    /\ reads' = 0
    /\ resolves' = 0
    /\ ret' = NoOutcome
    /\ sample' = IF sample.taken THEN [sample EXCEPT !.ended = TRUE] ELSE sample
    /\ mono' = IF mono.phase > 0 THEN [mono EXCEPT !.ended = TRUE] ELSE mono
    /\ UNCHANGED <<clock, dates, board>>

\* The clock advances to its next value (it never goes back).  The histories sample and board
\* speak of one clock value and are dropped when it changes.
Tick ==
    /\ \E t \in ClockValues :
          /\ TupleLess(clock, t, 1)
          /\ ~\E u \in ClockValues : TupleLess(clock, u, 1) /\ TupleLess(u, t, 1)
          /\ clock' = t
    /\ sample' = NoSample
    /\ board' = NoBoard
    /\ UNCHANGED <<pc, frame, mono>>

Next ==
    \/ CallNamed
    \/ CallIsDue
    \/ ResolveNow
    \/ Finish
    \/ Return
    \/ Tick

Spec == Init /\ [][Next]_vars

\* ------------------------------------------------------------- histories

\* the call that has just ended was decided by the present clock value: it
\* read the clock last at this value, or did not read it at all
AtPresentClock == today = NoValue \/ today = clock

\* remember the outcome of the call that has just ended
ObserveSample ==
    /\ pc = "done"
    /\ AtPresentClock
    /\ ~sample.taken
    /\ sample' = [taken |-> TRUE, ended |-> FALSE, pred |-> pred, datestring |-> datestring,
                  arg_op |-> arg_op, ret |-> ret, check |-> check_date]
    /\ UNCHANGED <<clock, pc, frame, board, mono>>

NextSame == Next \/ ObserveSample

SpecSame == Init /\ [][NextSame]_vars

BoardMark == IF ret.exc # "" THEN "E" ELSE IF ret.val THEN "T" ELSE "F"

\* note the answer of is_past, is_today or is_future for one input
ObserveBoard ==
    /\ pc = "done"
    /\ AtPresentClock
    /\ pred \in {"is_past", "is_today", "is_future"}
    /\ board.datestring \in {<<>>, datestring}
    /\ board[pred] = "?"
    /\ board' = [board EXCEPT !.datestring = datestring, ![pred] = BoardMark]
    /\ UNCHANGED <<clock, pc, frame, sample, mono>>

NextTri == Next \/ ObserveBoard

SpecTri == Init /\ [][NextTri]_vars

\* remember that is_past(D) has answered true, is_future(D) false, or
\* is_today(D) true
ObserveFirst ==
    /\ pc = "done"
    /\ mono.phase = 0
    /\ \/ pred = "is_past" /\ ret = Returned(TRUE)
       \/ pred = "is_future" /\ ret = Returned(FALSE)
       \/ pred = "is_today" /\ ret = Returned(TRUE)
    /\ mono' = [pred |-> pred, datestring |-> datestring, phase |-> 1,
                ended |-> FALSE]
    /\ UNCHANGED <<clock, pc, frame, sample, board>>

\* remember that is_today(D), after answering true, has answered false
ObserveTurn ==
    /\ pc = "done"
    /\ mono.phase = 1
    /\ mono.ended
    /\ mono.pred = "is_today"
    /\ pred = "is_today"
    /\ datestring = mono.datestring
    /\ ret = Returned(FALSE)
    /\ mono' = [mono EXCEPT !.phase = 2, !.ended = FALSE]
    /\ UNCHANGED <<clock, pc, frame, sample, board>>

NextMono == Next \/ ObserveFirst \/ ObserveTurn

SpecMono == Init /\ [][NextMono]_vars

\* ---------------------------------------------------------------- claims

\* the text is exactly of one of the three forms (no newline after it)
ExactForm(s) ==
    \/ Len(s) = 10 /\ Matches(PatternDate, s)
    \/ Len(s) = 19 /\ (Matches(PatternT, s) \/ Matches(PatternSpace, s))

\* the date, and the time of day if any, that the text of form s denotes
FieldsOf(s) ==
    IF Len(s) = 10
    THEN <<ToInt(s, 1, 4), ToInt(s, 6, 7), ToInt(s, 9, 10)>>
    ELSE <<ToInt(s, 1, 4), ToInt(s, 6, 7), ToInt(s, 9, 10),
           ToInt(s, 12, 13), ToInt(s, 15, 16), ToInt(s, 18, 19), 0>>

\* the text is of one of the three forms and names a day that exists and,
\* if it has a time, a time of day that exists
WellFormed(s) ==
    /\ ExactForm(s)
    /\ LET f == FieldsOf(s)
       IN  /\ f[1] >= 1
           /\ f[2] \in 1..12
           /\ f[3] \in 1..DaysInMonth(f[1], f[2])
           /\ Len(s) = 19 => f[4] \in 0..23 /\ f[5] \in 0..59 /\ f[6] \in 0..59

\* the clock value t at the precision of the text s
NowAt(s, t) ==
    IF Len(s) = 10 THEN <<t[1], t[2], t[3]>>
    ELSE <<t[1], t[2], t[3], t[4], t[5], t[6], 0>>

Before(a, b) == TupleLess(a, b, 1)

\* a <sym> b in the order of time
Holds(sym, a, b) ==
    CASE sym = "==" -> a = b
      [] sym = "!=" -> a # b
      [] sym = "<"  -> Before(a, b)
      [] sym = "<=" -> Before(a, b) \/ a = b
      [] sym = ">"  -> Before(b, a)
      [] sym = ">=" -> Before(b, a) \/ a = b

\* what the specification's table says a named predicate answers
TableAnswer(p, check, now) ==
    CASE p = "is_past" -> Holds("<", check, now)
      [] p = "is_today_or_past" -> Holds("<=", check, now)
      [] p = "is_future" -> Holds(">", check, now)
      [] p = "is_today_or_future" -> Holds(">=", check, now)
      [] p = "is_today" -> Holds("==", check, now)

\* C1 as stated: for every input that matches one of the three patterns, a
\* named predicate returns the comparison of the parsed input with the clock
\* at the input's precision.
C1_EveryMatchingInput ==
    (pc = "done" /\ pred \in NamedPredicates /\ ReadsClock(datestring)) =>
        /\ ret.exc = ""
        /\ ret.val = TableAnswer(pred, FieldsOf(datestring), NowAt(datestring, today))

\* C1 as amended: for every input that is exactly of one of the three forms and
\* names an existing date (and time of day), a named predicate returns
\* is_past = (check < now), is_today_or_past = (check <= now), is_future =
\* (check > now), is_today_or_future = (check >= now), is_today = (check = now),
\* where check is the parsed input and now is the clock, as the call read it
\* last, at the input's precision.
C1_NamedPredicates ==
    (pc = "done" /\ pred \in NamedPredicates /\ WellFormed(datestring)) =>
        ret = Returned(TableAnswer(pred, FieldsOf(datestring),
                                   NowAt(datestring, today)))

\* is_today of a timestamp returned true half a second after that timestamp
C1_Witness ==
    /\ pc = "done"
    /\ pred = "is_today"
    /\ WellFormed(datestring)
    /\ Len(datestring) = 19
    /\ today[7] = 500000
    /\ ret = Returned(TRUE)

\* the operator is_due applies when called with op
EffectiveSymbol(op) == IF op.given THEN op.sym ELSE "=="

\* the named predicate that is_due with the symbol is equivalent to
NamedFor(sym) ==
    CASE sym = "==" -> "is_today"
      [] sym = ">"  -> "is_past"
      [] sym = "<"  -> "is_future"
      [] sym = ">=" -> "is_today_or_past"
      [] sym = "<=" -> "is_today_or_future"
      [] sym = "!=" -> "none"

\* the ended call that sample holds was made on the input of the call that has
\* just ended, and both were decided by the present clock value
SampleOfSameInput ==
    /\ pc = "done"
    /\ AtPresentClock
    /\ sample.taken
    /\ sample.ended
    /\ sample.datestring = datestring

\* C2: is_due(D, op) returns op(now, check), equality when op is omitted; so at
\* one clock value is_due(D) = is_due(D, "==") = is_today(D), is_due(D, ">") =
\* is_past(D), is_due(D, "<") = is_future(D), is_due(D, ">=") =
\* is_today_or_past(D), is_due(D, "<=") = is_today_or_future(D) and
\* is_due(D, "!=") = not is_today(D), for every well-formed D.
C2_IsDueAgreesWithNamed ==
    (/\ pc = "done"
     /\ pred = "is_due"
     /\ WellFormed(datestring)
     /\ EffectiveSymbol(arg_op) \in Ops) =>
        LET sym == EffectiveSymbol(arg_op)
        IN  /\ ret = Returned(Holds(sym, NowAt(datestring, today),
                                    FieldsOf(datestring)))
            /\ (SampleOfSameInput /\ sample.pred = NamedFor(sym)) =>
                   ret = sample.ret
            /\ (SampleOfSameInput /\ sample.pred = "is_today" /\ sym = "!=") =>
                   /\ sample.ret.exc = ""
                   /\ ret = Returned(~sample.ret.val)
            /\ (SampleOfSameInput /\ sample.pred = "is_due"
                    /\ EffectiveSymbol(sample.arg_op) = sym) =>
                   ret = sample.ret

\* is_due(D, ">") returned true after is_past(D) had returned at this clock value
C2_Witness ==
    /\ SampleOfSameInput
    /\ WellFormed(datestring)
    /\ sample.pred = "is_past"
    /\ pred = "is_due"
    /\ arg_op = Given(">")
    /\ ret = Returned(TRUE)

BoardMarks == <<board.is_past, board.is_today, board.is_future>>

\* C3: for a well-formed D at one clock value exactly one of is_past(D),
\* is_today(D), is_future(D) is true: the answers noted so far hold at most
\* one true and no failure, and once all three are noted exactly one is true.
C3_ExactlyOne ==
    (board.datestring # <<>> /\ WellFormed(board.datestring)) =>
        /\ \A i \in 1..3 : BoardMarks[i] # "E"
        /\ Cardinality({i \in 1..3 : BoardMarks[i] = "T"}) <= 1
        /\ (\A i \in 1..3 : BoardMarks[i] # "?") =>
               Cardinality({i \in 1..3 : BoardMarks[i] = "T"}) = 1

\* all three answers are noted for a timestamp, half a second after it
C3_Witness ==
    /\ WellFormed(board.datestring)
    /\ Len(board.datestring) = 19
    /\ \A i \in 1..3 : BoardMarks[i] # "?"
    /\ board.is_today = "T"
    /\ clock[7] = 500000

\* C4 as stated: is_due with a well-formed date and an operator string outside
\* the six recognized symbols, the empty string included, fails with the
\* unknown-operator error (the failed lookup of that string in the operator
\* table) and never returns a boolean.
C4_UnknownOperatorFails ==
    (/\ pc = "done"
     /\ pred = "is_due"
     /\ WellFormed(datestring)
     /\ arg_op.given
     /\ arg_op.sym \notin Ops) =>
        ret = KeyError(arg_op.sym)

\* C5 as stated: for an input that matches none of the three patterns,
\* resolution produces neither now nor check, and the predicate fails with an
\* InvalidDateFormat error, which is not the generic missing-key error.
C5_InvalidDateFormat ==
    (pc = "done" /\ ~ReadsClock(datestring)) =>
        /\ DOMAIN dates = {}
        /\ ret.exc = "InvalidDateFormat"

\* C6: every pair that get_dates returns has now and check of the same
\* variant, dates for a date-only input and timestamps for a timestamp input,
\* and a timestamp now has no sub-second part.
C6_SameVariant ==
    (DOMAIN dates # {}) =>
        /\ DOMAIN dates = {"now_date", "check_date"}
        /\ Len(dates["now_date"]) = Len(dates["check_date"])
        /\ IsDate(dates["now_date"]) \/ IsDateTime(dates["now_date"])
        /\ IsDateTime(dates["now_date"]) => dates["now_date"][7] = 0
        /\ pc # "idle" =>
              IsDate(dates["now_date"]) = Matches(PatternDate, datestring)

\* get_dates has returned a pair of timestamps while the clock was at a half second
C6_Witness ==
    /\ pc = "now"
    /\ DOMAIN dates # {}
    /\ IsDateTime(dates["now_date"])
    /\ IsDateTime(dates["check_date"])
    /\ today[7] = 500000

\* the other spelling of a timestamp text: T for the space, the space for T
OtherSpelling(s) ==
    [s EXCEPT ![11] = IF @ = "T" THEN " " ELSE IF @ = " " THEN "T" ELSE @]

\* C7: a timestamp written with T and the same timestamp written with a space
\* resolve to the same check value, and every predicate returns the same for
\* the two spellings at the same clock value.
C7_SeparatorSpellings ==
    (/\ pc = "done"
     /\ AtPresentClock
     /\ Len(datestring) = 19
     /\ sample.taken
     /\ sample.ended
     /\ sample.datestring = OtherSpelling(datestring)
     /\ sample.datestring # datestring
     /\ sample.pred = pred
     /\ sample.arg_op = arg_op) =>
        /\ ret = sample.ret
        /\ check_date = sample.check

\* a predicate has returned true for the spelling with a space after it had
\* returned for the spelling with T
C7_Witness ==
    /\ pc = "done"
    /\ AtPresentClock
    /\ Len(datestring) = 19
    /\ datestring[11] = " "
    /\ sample.taken
    /\ sample.ended
    /\ sample.datestring = OtherSpelling(datestring)
    /\ sample.pred = pred
    /\ sample.arg_op = arg_op
    /\ ret = Returned(TRUE)
    /\ check_date = <<2030, 6, 15, 0, 0, 0, 0>>

\* C8 as stated: a predicate call that returns has resolved its input exactly
\* once, by one get_dates call and one reading of the clock.
C8_ResolvedOnce ==
    (pc = "done" /\ ret.exc = "") => (resolves = 1 /\ reads = 1)

\* C9: two calls with the same predicate, input and operator at the same clock
\* value have the same outcome, the same boolean or the same error, whatever
\* calls were made between them.
C9_Deterministic ==
    (/\ SampleOfSameInput
     /\ sample.pred = pred
     /\ sample.arg_op = arg_op) =>
        ret = sample.ret

\* a call on a text that matches no pattern has failed as an earlier, ended
\* call on that text did
C9_Witness ==
    /\ SampleOfSameInput
    /\ sample.pred = pred
    /\ sample.arg_op = arg_op
    /\ ~ReadsClock(datestring)
    /\ ret.exc = "KeyError"

\* C10: under a clock that never goes back, once is_past(D) has returned true
\* every later is_past(D) returns true, once is_future(D) has returned false
\* every later is_future(D) returns false, and once is_today(D) has turned from
\* true to false it never returns true again.
C10_Monotone ==
    (/\ pc = "done"
     /\ mono.phase > 0
     /\ mono.ended
     /\ mono.pred = pred
     /\ mono.datestring = datestring) =>
        /\ pred = "is_past" => ret = Returned(TRUE)
        /\ pred = "is_future" => ret = Returned(FALSE)
        /\ (pred = "is_today" /\ mono.phase = 2) => ret = Returned(FALSE)

\* is_today(D) has returned false again, in a call after the one in which it
\* turned from true to false
C10_Witness ==
    /\ pc = "done"
    /\ mono.phase = 2
    /\ mono.ended
    /\ mono.pred = pred
    /\ mono.datestring = datestring
    /\ ret = Returned(FALSE)

====
